---- MODULE Spec2Model ----
(***************************************************************************)
(* A model of gunpowder's DefectAugment node (nodes/defect_augment.py):    *)
(* the per-slice augmentation plan built by prepare, the growth of the     *)
(* upstream request, the augmentations applied by process and the final    *)
(* crop.  Python indices are 0-based; TLA+ tuples are 1-based, so axis d   *)
(* of the code is component d+1 of a tuple here.                           *)
(***************************************************************************)
EXTENDS Integers, Sequences, FiniteSets, TLC

\* ------------------------------------------------------------------ bounds

\* largest number of slices along the cut axis of a request
MaxCut == 2
\* largest in-slice extent (voxels) of a request; the smallest is MaxSide - 1
MaxSide == 4
\* largest deformation_strength a node is constructed with
MaxStrength == 1
\* side of the large slices the flow-field generator is called with on its own:
\* wider than the dilated tear line
WideSide == 13
\* largest number of entries of the outputs dict of a Predict node
MaxOutputs == 2

\* ------------------------------------------------------------- small helpers

Abs(n) == IF n < 0 THEN -n ELSE n

Min(S) == CHOOSE m \in S : \A n \in S : m <= n

\* component d (0-based, as in the code) of a tuple
At(t, d) == t[d + 1]

\* Python's t[:axis] + t[axis+1:]
DropAxis(t, axis) ==
    [i \in 1 .. (Len(t) - 1) |-> IF i <= axis THEN t[i] ELSE t[i + 1]]

\* all index tuples of an array of the given shape
Box(shape) ==
    IF Len(shape) = 3
    THEN {<<i, j, k>> : i \in 0 .. (shape[1] - 1), j \in 0 .. (shape[2] - 1),
                        k \in 0 .. (shape[3] - 1)}
    ELSE {<<i, j>> : i \in 0 .. (shape[1] - 1), j \in 0 .. (shape[2] - 1)}

\* ------------------------------------------------------------ Roi, Coordinate

\* a region of interest: offset and shape in world units
Roi(offset, shape) == [offset |-> offset, shape |-> shape]

\* Roi.grow(amount_neg, amount_pos)
grow(roi, amount_neg, amount_pos) ==
    Roi([i \in DOMAIN roi.offset |-> roi.offset[i] - amount_neg[i]],
        [i \in DOMAIN roi.shape |-> roi.shape[i] + amount_neg[i] + amount_pos[i]])

\* roi / voxel_size: the region in voxels
RoiDiv(roi, voxel_size) ==
    Roi([i \in DOMAIN roi.offset |-> roi.offset[i] \div voxel_size[i]],
        [i \in DOMAIN roi.shape |-> roi.shape[i] \div voxel_size[i]])

\* ------------------------------------------------------------------- values

\* A voxel value is a rational <<numerator, denominator>>, denominator > 0.
Val(n) == <<n, 1>>

Zero == Val(0)

ValEq(a, b) == a[1] * b[2] = b[1] * a[2]

\* ------------------------------------------------ the flow-field generator

\* number of dilation iterations of the tear line
DilateIterations == 10

\* all pixels <<row, column>> of a 2D array
Pixels(shape) == {<<i, j>> : i \in 0 .. (shape[1] - 1), j \in 0 .. (shape[2] - 1)}

\* the inner loop of the line rasterizer:  while d >= 0: r += sr; d -= 2*dc
RECURSIVE LineWhile(_, _, _, _)
LineWhile(r, d, sr, dc) ==
    IF d >= 0 THEN LineWhile(r + sr, d - 2 * dc, sr, dc) ELSE <<r, d>>

\* the outer loop of the line rasterizer: the first dc pixels of the line
RECURSIVE LineLoop(_, _, _, _, _, _, _, _, _)
LineLoop(i, r, c, d, dr, dc, sr, sc, steep) ==
    IF i >= dc
    THEN {}
    ELSE LET w == LineWhile(r, d, sr, dc)
         IN  {IF steep THEN <<c, r>> ELSE <<r, c>>}
                 \cup LineLoop(i + 1, w[1], c + sc, w[2] + 2 * dr, dr, dc, sr, sc, steep)

\* skimage.draw.line(r0, c0, r1, c1): Bresenham's line, as a set of pixels
line(r0, c0, r1, c1) ==
    LET adr == Abs(r1 - r0)
        adc == Abs(c1 - c0)
        sc0 == IF c1 - c0 > 0 THEN 1 ELSE -1
        sr0 == IF r1 - r0 > 0 THEN 1 ELSE -1
        steep == adr > adc
        r == IF steep THEN c0 ELSE r0
        c == IF steep THEN r0 ELSE c0
        dr == IF steep THEN adc ELSE adr
        dc == IF steep THEN adr ELSE adc
        sr == IF steep THEN sc0 ELSE sr0
        sc == IF steep THEN sr0 ELSE sc0
    IN  LineLoop(0, r, c, 2 * dr - dc, dr, dc, sr, sc, steep) \cup {<<r1, c1>>}

\* Neighbours4 with the diagonal neighbours added
Neighbours8(p) ==
    {<<p[1] + i, p[2] + j>> : i \in {-1, 0, 1}, j \in {-1, 0, 1}} \ {p}

\* the four neighbours of a pixel (scipy's default structuring element)
Neighbours4(p) ==
    {<<p[1] - 1, p[2]>>, <<p[1] + 1, p[2]>>, <<p[1], p[2] - 1>>, <<p[1], p[2] + 1>>}

\* the 4-connected region of free pixels around a frontier
RECURSIVE Fill(_, _, _)
Fill(region, frontier, free) ==
    IF frontier = {}
    THEN region
    ELSE LET next == ((UNION {Neighbours4(p) : p \in frontier}) \cap free) \ region
         IN  Fill(region \cup next, next, free)

\* the first pixel of a set in raster (row-major) order
RasterFirst(S, shape) ==
    CHOOSE p \in S : \A q \in S : p[1] * shape[2] + p[2] <= q[1] * shape[2] + q[2]

\* the connected components of a set of pixels, in the order scipy labels them
RECURSIVE LabelFrom(_, _)
LabelFrom(free, shape) ==
    IF free = {}
    THEN <<>>
    ELSE LET seed == RasterFirst(free, shape)
             comp == Fill({seed}, {seed}, free)
         IN  <<comp>> \o LabelFrom(free \ comp, shape)

\* scipy.ndimage.label(logical_not(line_mask)): the components, label k is the k-th
label(shape, line_mask) == LabelFrom(Pixels(shape) \ line_mask, shape)

\* components[p]: the label of a pixel, 0 on the line itself
ComponentOf(components, p) ==
    IF \E k \in DOMAIN components : p \in components[k]
    THEN CHOOSE k \in DOMAIN components : p \in components[k]
    ELSE 0

\* binary_dilation that returns the mask as it is
no_dilation(mask, shape, iterations) == mask

\* scipy.ndimage.binary_dilation(mask, iterations=n) inside an array of this shape
RECURSIVE binary_dilation(_, _, _)
binary_dilation(mask, shape, iterations) ==
    IF iterations = 0
    THEN mask
    ELSE LET grown == (mask \cup UNION {Neighbours4(p) : p \in mask}) \cap Pixels(shape)
         IN  IF grown = mask THEN mask ELSE binary_dilation(grown, shape, iterations - 1)

\* the values np.random.randint(low, high) can return (none: it raises)
randint(low, high) == low .. (high - 1)

\* PaddedShape without the padding
UnpaddedShape(slice_shape, deformation_strength) == <<slice_shape[1], slice_shape[2]>>

\* the padded shape of a slice, line 229 (needs a 2D slice shape)
PaddedShape(slice_shape, deformation_strength) ==
    <<slice_shape[1] + 2 * deformation_strength, slice_shape[2] + 2 * deformation_strength>>

\* the range the free coordinate of both tear-line endpoints is drawn from
EndpointRange(shape, fixed_x) ==
    IF fixed_x THEN randint(1, shape[2] - 2) ELSE randint(1, shape[1] - 2)

\* the two endpoints <<x0, y0, x1, y1>> of the tear line, lines 233-238
Endpoints(shape, rnd) ==
    IF rnd.fixed_x
    THEN <<0, rnd.p0, shape[1] - 1, rnd.p1>>
    ELSE <<rnd.p0, 0, rnd.p1, shape[2] - 1>>

\* numpy broadcasting of two 2D shapes: the result shape, or <<>> (it raises)
Broadcast(a, b) ==
    IF \A i \in 1 .. 2 : a[i] = b[i] \/ a[i] = 1 \/ b[i] = 1
    THEN [i \in 1 .. 2 |-> IF a[i] = 1 THEN b[i] ELSE a[i]]
    ELSE <<>>

\* no line mask (the generator raised)
NoMask == [shape |-> <<>>, at |-> {}]

\* DefectAugment.__prepare_deform_slice(slice_shape) under the random outcomes rnd =
\* [fixed_x, p0, p1].  The result is [err, flow_x, flow_y, line_mask]; a flow entry
\* <<g, n, q>> stands for the sampling coordinate g + n / sqrt(q), and a mask is the
\* shape of the boolean array with the set of its true pixels.
prepare_deform_slice(slice_shape, deformation_strength, rnd) ==
    IF Len(slice_shape) < 2
    THEN [err |-> "IndexError: slice_shape", flow_x |-> <<>>, flow_y |-> <<>>,
          line_mask |-> NoMask]
    ELSE
    LET shape == PaddedShape(slice_shape, deformation_strength)
        fixed_x == rnd.fixed_x
    IN
    IF EndpointRange(shape, fixed_x) = {}
    THEN [err |-> "ValueError: randint", flow_x |-> <<>>, flow_y |-> <<>>,
          line_mask |-> NoMask]
    ELSE
    LET e == Endpoints(shape, rnd)
        x0 == e[1]
        y0 == e[2]
        x1 == e[3]
        y1 == e[4]
        line_mask == line(x0, y0, x1, y1)
        \* the line vector and its normal, both times the length of the line
        line_vector == <<x1 - x0, y1 - y0>>
        norm2 == line_vector[1] * line_vector[1] + line_vector[2] * line_vector[2]
        normal_vector == <<-line_vector[2], line_vector[1]>>
        components == label(shape, line_mask)
        n_components == Len(components)
        first == ComponentOf(components, <<0, 0>>)
        last == ComponentOf(components, <<shape[1] - 1, shape[2] - 1>>)
        neg_val == IF fixed_x THEN first ELSE last
        pos_val == IF fixed_x THEN last ELSE first
        side(p) == LET k == ComponentOf(components, p)
                   IN  IF k = neg_val THEN -1 ELSE IF k = pos_val THEN 1 ELSE 0
        \* meshgrid with the default 'xy' indexing: arrays of shape (shape[1], shape[0])
        grid_shape == <<shape[2], shape[1]>>
        sum_shape == Broadcast(grid_shape, shape)
        count == shape[1] * shape[2]
        pixel(k) == <<(k - 1) \div shape[2], (k - 1) % shape[2]>>
    IN
    IF n_components # 2
    THEN [err |-> "AssertionError: n_components", flow_x |-> <<>>, flow_y |-> <<>>,
          line_mask |-> NoMask]
    ELSE IF sum_shape # shape
    THEN [err |-> "ValueError: broadcast", flow_x |-> <<>>, flow_y |-> <<>>,
          line_mask |-> NoMask]
    ELSE [err |-> "none",
          flow_x |-> [k \in 1 .. count |->
                        <<pixel(k)[2],
                          side(pixel(k)) * deformation_strength * normal_vector[2], norm2>>],
          flow_y |-> [k \in 1 .. count |->
                        <<pixel(k)[1],
                          side(pixel(k)) * deformation_strength * normal_vector[1], norm2>>],
          line_mask |-> [shape |-> shape,
                        at |-> binary_dilation(line_mask, shape, DilateIterations)]]

\* ------------------------------------------------------- rational arithmetic

RAdd(a, b) == <<a[1] * b[2] + b[1] * a[2], a[2] * b[2]>>

RSub(a, b) == <<a[1] * b[2] - b[1] * a[2], a[2] * b[2]>>

RMul(a, b) == <<a[1] * b[1], a[2] * b[2]>>

RLeq(a, b) == a[1] * b[2] <= b[1] * a[2]

\* the sum of the values f[i], i in S
RECURSIVE RSum(_, _)
RSum(f, S) ==
    IF S = {}
    THEN Zero
    ELSE LET i == CHOOSE j \in S : TRUE IN RAdd(f[i], RSum(f, S \ {i}))

\* ------------------------------------------------------------------ volumes

VolumeTypes == {"RAW", "GT_LABELS"}

\* a volume of a batch: the ROI of its spec, and its data with the data's shape
Volume(roi, shape, data) == [roi |-> roi, shape |-> shape, data |-> data]

\* the value upstream holds at a voxel position
Pattern(volume_type, pos) ==
    IF volume_type = "RAW"
    THEN Val(1 + ((100 + pos[1] + 2 * pos[Len(pos) - 1] + 3 * pos[Len(pos)]) % 5))
    ELSE Val(10 + ((100 + pos[1] + pos[Len(pos)]) % 2))

\* the volume upstream delivers for a requested ROI: exactly that region
UpstreamVolume(volume_type, roi, voxel_size) ==
    LET vox == RoiDiv(roi, voxel_size)
    IN  Volume(roi, vox.shape,
               [idx \in Box(vox.shape) |->
                   Pattern(volume_type, [i \in DOMAIN idx |-> vox.offset[i] + idx[i]])])

\* upstream's request_batch(upstream_request)
UpstreamBatch(upstream_request, voxel_size) ==
    [v \in DOMAIN upstream_request |-> UpstreamVolume(v, upstream_request[v], voxel_size)]

\* the number of elements of range(n)[start:stop], start >= 0
PySliceLen(n, start, stop) ==
    LET lo == IF start > n THEN n ELSE start
        hi == IF stop < 0 THEN (IF stop + n < 0 THEN 0 ELSE stop + n)
              ELSE (IF stop > n THEN n ELSE stop)
    IN  IF hi > lo THEN hi - lo ELSE 0

\* ------------------------------------------------------------------ prepare

\* Probabilities and random draws are counted in tenths: 5 stands for 0.5.
\* the values random.random() returns in the model
RSet == {2, 5}

\* Classify with the threshold comparisons made inclusive
ClassifyInclusive(node, r) ==
    LET prob_missing_threshold == node.prob_missing
        prob_low_contrast_threshold == prob_missing_threshold + node.prob_low_contrast
        prob_artifact_threshold == prob_low_contrast_threshold + node.prob_artifact
        prob_deform_slice == prob_artifact_threshold + node.prob_deform
    IN  IF r <= prob_missing_threshold THEN "zero_out"
        ELSE IF r <= prob_low_contrast_threshold THEN "lower_contrast"
        ELSE IF r <= prob_artifact_threshold THEN "artifact"
        ELSE IF r <= prob_deform_slice THEN "deformed_slice"
        ELSE "none"

\* the augmentation a draw r selects, lines 84-87 and 101-115 ("none": no entry)
Classify(node, r) ==
    LET prob_missing_threshold == node.prob_missing
        prob_low_contrast_threshold == prob_missing_threshold + node.prob_low_contrast
        prob_artifact_threshold == prob_low_contrast_threshold + node.prob_artifact
        prob_deform_slice == prob_artifact_threshold + node.prob_deform
    IN  IF r < prob_missing_threshold THEN "zero_out"
        ELSE IF r < prob_low_contrast_threshold THEN "lower_contrast"
        ELSE IF r < prob_artifact_threshold THEN "artifact"
        ELSE IF r < prob_deform_slice THEN "deformed_slice"
        ELSE "none"

\* Growth that does not spare the cut axis
GrowthEveryAxis(node, dims) ==
    [i \in 1 .. dims |-> node.spec.voxel_size[i] * node.deformation_strength]

\* the growth of the request, line 129-131
Growth(node, dims) ==
    [i \in 1 .. dims |->
        IF i - 1 = node.axis THEN 0
        ELSE node.spec.voxel_size[i] * node.deformation_strength]

\* Expand that sets the grown ROI on every volume of the request
ExpandEveryVolume(request, source_roi) == [v \in DOMAIN request |-> source_roi]

\* spec.roi = source_roi, line 137: the raw entry of the request gets the grown ROI
Expand(request, source_roi) == [request EXCEPT !["RAW"] = source_roi]

\* the values of a dict
Values(dict) == {dict[k] : k \in DOMAIN dict}

\* DefectAugment.prepare(request), with the draws rs (one per slice) and what the
\* flow-field generator returns, made (one result per deformed slice).  The result is
\* the node and the request as prepare leaves them, the error it raised ("none" if
\* it returned) and the number of slices it classified.
prepare(node, request, rs, made) ==
    LET roi == request["RAW"]
        raw_voxel_size == node.spec.voxel_size
        shape == RoiDiv(roi, raw_voxel_size).shape
        cleared == [node EXCEPT !.slice_to_augmentation = <<>>,
                                !.deform_slice_transformations = <<>>]
    IN
    IF node.axis >= Len(shape)
    THEN [node |-> cleared, request |-> request, err |-> "IndexError: axis", drawn |-> 0]
    ELSE
    LET n == At(shape, node.axis)
        slice_shape == DropAxis(shape, node.axis)
        deformed == {c \in 0 .. (n - 1) : Classify(node, rs[c]) = "deformed_slice"}
        failing == {c \in deformed : made[c].err # "none"}
        \* the last slice the loop reaches
        last == IF failing = {} THEN n - 1 ELSE Min(failing)
        slice_to_augmentation ==
            [c \in {k \in 0 .. last : Classify(node, rs[k]) # "none"} |->
                Classify(node, rs[c])]
        deform_slice_transformations ==
            [c \in {k \in deformed : k <= last /\ k \notin failing} |->
                [flow_x |-> made[c].flow_x, flow_y |-> made[c].flow_y,
                 line_mask |-> made[c].line_mask]]
        prepared == [node EXCEPT !.slice_to_augmentation = slice_to_augmentation,
                                 !.deform_slice_transformations =
                                     deform_slice_transformations]
        growth == Growth(node, Len(roi.shape))
        source_roi == grow(roi, growth, growth)
    IN
    IF failing # {}
    THEN [node |-> prepared, request |-> request, err |-> made[last].err,
          drawn |-> last + 1]
    ELSE IF "deformed_slice" \in Values(slice_to_augmentation)
    THEN [node |-> prepared, request |-> Expand(request, source_roi),
          err |-> "none", drawn |-> n]
    ELSE [node |-> prepared, request |-> request, err |-> "none", drawn |-> n]

\* ------------------------------------------------------------------ process

\* a * sqrt(q) <= b, for integers a, b and q > 0
LeSqrt(a, q, b) ==
    IF a <= 0
    THEN (b >= 0 \/ a * a * q >= b * b)
    ELSE (b >= 0 /\ a * a * q <= b * b)

\* floor(n / sqrt(q) + 1/2): the offset of the nearest sample
RoundOffset(n, q) ==
    CHOOSE k \in (-Abs(n) - 1) .. (Abs(n) + 1) :
        LeSqrt(2 * k - 1, q, 2 * n) /\ ~LeSqrt(2 * k + 1, q, 2 * n)

\* scipy.ndimage.map_coordinates(section, (flow_y, flow_x), mode='constant',
\* order=order): one value per coordinate pair.  A pair on the grid yields the
\* sample itself for every order; off the grid the nearest sample is taken, which
\* is scipy's order 0 (the cubic kernel of order 3 is not computed here); outside
\* the section the constant 0.
map_coordinates(section, shape, flow_y, flow_x, order) ==
    [k \in DOMAIN flow_y |->
        LET row == flow_y[k][1] + RoundOffset(flow_y[k][2], flow_y[k][3])
            col == flow_x[k][1] + RoundOffset(flow_x[k][2], flow_x[k][3])
        IN  IF <<row, col>> \in Pixels(shape) THEN section[<<row, col>>] ELSE Zero]

\* the index of a 3D array that has c on the cut axis and p on the other two
InsertAxis(p, axis, c) ==
    [i \in 1 .. 3 |-> IF i = axis + 1 THEN c ELSE IF i <= axis THEN p[i] ELSE p[i - 1]]

\* numpy's rule for  target[...] = value  with a 2D value and a 3D target
CanAssign(value_shape, target_shape) ==
    \A i \in 1 .. 2 : value_shape[i] = target_shape[i + 1] \/ value_shape[i] = 1

\* the artifact batches the artifact source may answer with: the dtype of its RAW,
\* the dtype of its ALPHA_MASK, and the (uniform) alpha and raw values
ArtifactBatch(raw_dtype, alpha_dtype, alpha) ==
    [raw_dtype |-> raw_dtype, alpha_dtype |-> alpha_dtype, alpha |-> alpha, raw |-> Val(8)]

\* a batch that honours the contract, and one batch for each way of breaking it
ArtifactResponses ==
    {ArtifactBatch("float32", "float32", <<1, 2>>),
     ArtifactBatch("uint8", "float32", <<1, 2>>),
     ArtifactBatch("float32", "float64", <<1, 2>>),
     ArtifactBatch("float32", "float32", <<-1, 2>>),
     ArtifactBatch("float32", "float32", <<3, 2>>)}

\* zero_out that assigns to a copy of the section and leaves the data as it was
zero_out_a_copy(raw, selected) == raw.data

\* raw.data[section_selector] = 0, line 155
zero_out(raw, selected) ==
    [idx \in Box(raw.shape) |-> IF idx \in selected THEN Zero ELSE raw.data[idx]]

\* one iteration of the loop of process, lines 149-212, on slice c: the raw volume
\* afterwards and the error raised ("none" if the iteration completed)
AugmentSlice(node, raw, c, augmentation_type, artifact_batches) ==
    LET axis == node.axis
        artifact_batch == artifact_batches[c]
        raw_voxel_size == node.spec.voxel_size
        selected == {idx \in Box(raw.shape) : At(idx, axis) = c}
        selected_shape ==
            [raw.shape EXCEPT ![axis + 1] = PySliceLen(raw.shape[axis + 1], c, c + 1)]
        ok(data) == [raw |-> [raw EXCEPT !.data = data], err |-> "none"]
        raised(e) == [raw |-> raw, err |-> e]
    IN
    IF augmentation_type = "zero_out"
    THEN ok(zero_out(raw, selected))
    ELSE IF augmentation_type = "low_contrast"
    THEN IF selected = {}
         THEN ok(raw.data)
         ELSE LET mean == RMul(RSum(raw.data, selected), <<1, Cardinality(selected)>>)
              IN  ok([idx \in Box(raw.shape) |->
                        IF idx \in selected
                        THEN RAdd(RMul(RSub(raw.data[idx], mean), node.contrast_scale), mean)
                        ELSE raw.data[idx]])
    ELSE IF augmentation_type = "artifact"
    THEN IF ~node.artifact_source.given
         THEN raised("AttributeError")
         ELSE IF raw_voxel_size # node.artifact_source.alpha_voxel_size
         THEN raised("AssertionError: voxel size")
         ELSE IF artifact_batch.raw_dtype # node.spec.dtype
         THEN raised("AssertionError: raw dtype")
         ELSE IF artifact_batch.alpha_dtype # "float32"
         THEN raised("AssertionError: alpha dtype")
         ELSE IF ~RLeq(Zero, artifact_batch.alpha)
         THEN raised("AssertionError: alpha min")
         ELSE IF ~RLeq(artifact_batch.alpha, Val(1))
         THEN raised("AssertionError: alpha max")
         ELSE ok([idx \in Box(raw.shape) |->
                    IF idx \in selected
                    THEN RAdd(RMul(raw.data[idx], RSub(Val(1), artifact_batch.alpha)),
                              RMul(artifact_batch.raw, artifact_batch.alpha))
                    ELSE raw.data[idx]])
    ELSE IF augmentation_type = "deformed_slice"
    THEN LET \* raw.data[section_selector].squeeze()
             shape == SelectSeq(selected_shape, LAMBDA n : n # 1)
             interpolation == IF node.spec.interpolatable THEN 3 ELSE 0
         IN
         IF c \notin DOMAIN node.deform_slice_transformations
         THEN raised("KeyError")
         ELSE
         LET trafo == node.deform_slice_transformations[c]
             flow_x == trafo.flow_x
             flow_y == trafo.flow_y
             line_mask == trafo.line_mask
         IN
         IF Len(shape) # 2
         THEN raised("RuntimeError: map_coordinates")
         ELSE IF Len(flow_y) # shape[1] * shape[2]
         THEN raised("ValueError: reshape")
         ELSE IF line_mask.shape # shape
         THEN raised("IndexError: line_mask")
         ELSE IF ~CanAssign(shape, selected_shape)
         THEN raised("ValueError: assign")
         ELSE
         LET section == [p \in Pixels(shape) |-> raw.data[InsertAxis(p, axis, c)]]
             mapped == map_coordinates(section, shape, flow_y, flow_x, interpolation)
             deformed == [p \in Pixels(shape) |->
                             IF p \in line_mask.at THEN Zero
                             ELSE mapped[p[1] * shape[2] + p[2] + 1]]
         IN  ok([idx \in Box(raw.shape) |->
                    IF idx \in selected THEN deformed[<<idx[2], idx[3]>>]
                    ELSE raw.data[idx]])
    ELSE ok(raw.data)

\* the keys of a dict in insertion order: prepare inserts them in ascending order
RECURSIVE Items(_)
Items(keys) ==
    IF keys = {} THEN <<>> ELSE <<Min(keys)>> \o Items(keys \ {Min(keys)})

\* the loop of process over the plan, line 147; it stops at the first error
RECURSIVE AugmentLoop(_, _, _, _)
AugmentLoop(node, raw, items, artifact_batches) ==
    IF items = <<>>
    THEN [raw |-> raw, err |-> "none"]
    ELSE LET c == Head(items)
             step == AugmentSlice(node, raw, c, node.slice_to_augmentation[c],
                                  artifact_batches)
         IN  IF step.err # "none"
             THEN step
             ELSE AugmentLoop(node, step.raw, Tail(items), artifact_batches)

\* raw.data[crop], lines 219-223: every axis but the cut axis loses
\* deformation_strength voxels on each side
Crop(node, raw) ==
    LET s == node.deformation_strength
        shape == [i \in DOMAIN raw.shape |->
                    IF i - 1 = node.axis THEN raw.shape[i]
                    ELSE PySliceLen(raw.shape[i], s, -s)]
    IN  [raw EXCEPT !.shape = shape,
                    !.data = [idx \in Box(shape) |->
                                raw.data[[i \in DOMAIN idx |->
                                    IF i - 1 = node.axis THEN idx[i] ELSE idx[i] + s]]]]

\* Restore that crops the data and leaves the ROI of the batch as upstream set it
RestoreKeepsRoi(node, raw, request) == Crop(node, raw)

\* lines 217-224: the data is cropped and the ROI reset to the one of the request
Restore(node, raw, request) ==
    LET old_roi == request["RAW"]
    IN  [Crop(node, raw) EXCEPT !.roi = old_roi]

\* DefectAugment.process(batch, request), with the batches the artifact source
\* answers with (one per slice): the batch afterwards and the error raised
process(node, batch, request, artifact_batches) ==
    IF Len(batch["RAW"].roi.shape) # 3
    THEN [batch |-> batch, err |-> "AssertionError: dims"]
    ELSE
    LET raw == batch["RAW"]
        looped == AugmentLoop(node, raw, Items(DOMAIN node.slice_to_augmentation),
                              artifact_batches)
    IN
    IF looped.err # "none"
    THEN [batch |-> [batch EXCEPT !["RAW"] = looped.raw], err |-> looped.err]
    ELSE IF "deformed_slice" \in Values(node.slice_to_augmentation)
    THEN [batch |-> [batch EXCEPT !["RAW"] = Restore(node, looped.raw, request)],
          err |-> "none"]
    ELSE [batch |-> [batch EXCEPT !["RAW"] = looped.raw], err |-> "none"]

\* ------------------------------------------------------------ the state machine

VARIABLES
    \* the DefectAugment node: its configuration (set by __init__), the spec of the
    \* raw volume it is set up with, and the plan and transforms prepare stores on it
    defect_augment,
    \* the request/response exchanges through the node, each in its own provide()
    exchange,
    \* a call of the flow-field generator on its own: its input, the random outcomes
    \* it drew and what it returned
    flow_field,
    \* a Predict node (torch/nodes/predict.py) and the call of predict() on it
    torch_predict

vars == <<defect_augment, exchange, flow_field, torch_predict>>

Exchanges == {"A", "B"}

\* the probabilities (prob_missing, prob_low_contrast, prob_artifact, prob_deform)
\* nodes are constructed with, in tenths; the last two sum to more than 1
ProbConfigs ==
    {p \in [1 .. 4 -> {0, 5, 10}] : p[1] + p[2] + p[3] + p[4] <= 10}
        \cup {<<5, 5, 5, 5>>, <<10, 0, 0, 10>>}

\* the voxel sizes of the raw volume: a 3D provider and a 2D provider
VoxelSizes == {<<3, 2, 1>>, <<2, 1>>}

\* artifact_source=None
None == [given |-> FALSE, alpha_voxel_size |-> <<>>]

\* the artifact sources a node is constructed with: none, one whose alpha mask has
\* the voxel size of the raw volume, one whose alpha mask has another voxel size
ArtifactSources(voxel_size, prob_artifact) ==
    IF prob_artifact = 0
    THEN {None}
    ELSE {None, [given |-> TRUE, alpha_voxel_size |-> voxel_size],
          [given |-> TRUE,
           alpha_voxel_size |-> [i \in DOMAIN voxel_size |-> voxel_size[i] + 1]]}

\* DefectAugment.__init__ and the spec the pipeline sets up for the raw volume;
\* the node has prepared nothing yet
Nodes ==
    UNION {{[prob_missing |-> p[1], prob_low_contrast |-> p[2], prob_artifact |-> p[3],
             prob_deform |-> p[4], contrast_scale |-> <<1, 10>>, artifact_source |-> a,
             deformation_strength |-> s, axis |-> axis,
             spec |-> [voxel_size |-> v, interpolatable |-> TRUE, dtype |-> "float32"],
             slice_to_augmentation |-> <<>>, deform_slice_transformations |-> <<>>] :
                a \in ArtifactSources(v, p[3])} :
           p \in ProbConfigs, v \in VoxelSizes, s \in 0 .. MaxStrength, axis \in 0 .. 2}

Idle ==
    [pc |-> "idle", request |-> <<>>, upstream_request |-> <<>>, draws |-> <<>>,
     planned |-> <<>>, applied |-> <<>>, delivered |-> <<>>, batch |-> <<>>,
     err |-> "none"]

\* the flow-field generator has not been called on its own
NoCall == [pc |-> "idle", slice_shape |-> <<>>, rnd |-> <<>>, result |-> <<>>]

\* no Predict node is part of the pipeline
NoPredict == [pc |-> "absent"]

Init ==
    /\ defect_augment \in Nodes
    /\ exchange = [e \in Exchanges |-> Idle]
    /\ flow_field = NoCall
    /\ torch_predict = NoPredict

\* An exchange records, beside its position pc in provide(): the caller's request,
\* the request sent upstream, the draws prepare made for it and the plan prepare
\* built from them, the plan process applied, the batch upstream delivered, the
\* batch as process left it, and the error that ended it.

\* the requests a caller sends: the same ROI for the raw volume and the labels, with
\* up to MaxCut slices on the cut axis and MaxSide - 1 or MaxSide voxels on the others
Requests(node) ==
    LET voxel_size == node.spec.voxel_size
        dims == Len(voxel_size)
        shapes == {sh \in [1 .. dims -> 1 .. MaxSide] :
                     \A i \in 1 .. dims :
                        IF i - 1 = node.axis THEN sh[i] <= MaxCut ELSE sh[i] >= MaxSide - 1}
    IN  {[v \in VolumeTypes |->
            Roi([i \in 1 .. dims |-> i * voxel_size[i]],
                [i \in 1 .. dims |-> sh[i] * voxel_size[i]])] : sh \in shapes}

\* the number of slices prepare classifies for a request (0: it raises before)
SliceCount(node, request) ==
    LET shape == RoiDiv(request["RAW"], node.spec.voxel_size).shape
    IN  IF node.axis >= Len(shape) THEN 0 ELSE At(shape, node.axis)

\* the random outcomes of one call of the flow-field generator: the side choice and
\* the two randint draws (0 where randint raises or is never reached)
FlowDraws(node, request) ==
    LET shape == RoiDiv(request["RAW"], node.spec.voxel_size).shape
        slice_shape == DropAxis(shape, node.axis)
        padded == PaddedShape(slice_shape, node.deformation_strength)
        range(fx) == IF Len(slice_shape) < 2 \/ EndpointRange(padded, fx) = {}
                     THEN {0} ELSE EndpointRange(padded, fx)
    IN  UNION {{[fixed_x |-> fx, p0 |-> p0, p1 |-> p1] : p0 \in range(fx), p1 \in range(fx)} :
               fx \in BOOLEAN}

\* what __prepare_deform_slice can return for the slices of a request
GeneratorResults(node, request) ==
    LET shape == RoiDiv(request["RAW"], node.spec.voxel_size).shape
    IN  {prepare_deform_slice(DropAxis(shape, node.axis), node.deformation_strength, t) :
            t \in FlowDraws(node, request)}

\* provide() up to the upstream request, for a caller that sends one of the given
\* requests: the request is copied and the copy is handed to prepare
Provide(e, requests) ==
    /\ exchange[e].pc = "idle"
    /\ \E request \in requests :
       LET results == GeneratorResults(defect_augment, request)
       IN
       \E rs \in [0 .. (SliceCount(defect_augment, request) - 1) -> RSet] :
       \E made \in [{c \in DOMAIN rs : Classify(defect_augment, rs[c]) = "deformed_slice"}
                      -> results] :
          LET upstream_request == request
              res == prepare(defect_augment, upstream_request, rs, made)
          IN  /\ defect_augment' = res.node
              /\ exchange' = [exchange EXCEPT ![e] =
                    [pc |-> IF res.err = "none" THEN "prepared" ELSE "failed",
                     request |-> request,
                     upstream_request |-> res.request,
                     draws |-> [c \in 0 .. (res.drawn - 1) |-> rs[c]],
                     planned |-> res.node.slice_to_augmentation, applied |-> <<>>,
                     delivered |-> <<>>, batch |-> <<>>, err |-> res.err]]
    /\ UNCHANGED <<flow_field, torch_predict>>

Prepare(e) == Provide(e, Requests(defect_augment))

\* provide() from the upstream request on: upstream answers the prepared request and
\* process gets the batch together with the caller's request
Process(e) ==
    /\ exchange[e].pc = "prepared"
    /\ LET plan == defect_augment.slice_to_augmentation
           delivered == UpstreamBatch(exchange[e].upstream_request,
                                      defect_augment.spec.voxel_size)
       IN  \E artifact_batches \in
                [{c \in DOMAIN plan : plan[c] = "artifact"} -> ArtifactResponses] :
              LET res == process(defect_augment, delivered, exchange[e].request,
                                 artifact_batches)
              IN  exchange' = [exchange EXCEPT ![e] =
                    [@ EXCEPT !.pc = IF res.err = "none" THEN "done" ELSE "failed",
                              !.applied = plan,
                              !.delivered = delivered,
                              !.batch = res.batch,
                              !.err = res.err]]
    /\ UNCHANGED <<defect_augment, flow_field, torch_predict>>

\* one exchange through the node
Next == Prepare("A") \/ Process("A")

Spec == Init /\ [][Next]_vars

\* Exchanges of two callers (worker threads) through the same node, in any order
\* that keeps each exchange's prepare before its process.  The callers ask for one
\* slice each, from a 3D node that cuts along axis 0.
ConcurrentRequests(node) == {r \in Requests(node) : SliceCount(node, r) = 1}

PrepareC(e) == Provide(e, ConcurrentRequests(defect_augment))

InitC ==
    /\ Init
    /\ Len(defect_augment.spec.voxel_size) = 3
    /\ defect_augment.axis = 0

NextC == \E e \in Exchanges : PrepareC(e) \/ Process(e)

SpecC == InitC /\ [][NextC]_vars

\* ------------------------------------------- the flow-field generator on its own

\* the 2D slice shapes __prepare_deform_slice is called with
SliceShapes ==
    {<<h, w>> : h \in (1 .. MaxSide) \cup {WideSide}, w \in (1 .. MaxSide) \cup {WideSide}}

\* the random outcomes of a call on a slice shape: the side choice of line 232 and the
\* two randint draws of lines 234-238 (0 where randint raises)
GeneratorDraws(slice_shape, deformation_strength) ==
    LET shape == PaddedShape(slice_shape, deformation_strength)
        range(fx) == IF EndpointRange(shape, fx) = {} THEN {0} ELSE EndpointRange(shape, fx)
    IN  UNION {{[fixed_x |-> fx, p0 |-> p0, p1 |-> p1] : p0 \in range(fx), p1 \in range(fx)} :
               fx \in BOOLEAN}

\* a node that deforms every slice, and a slice shape to call its generator with
InitG ==
    /\ defect_augment \in {n \in Nodes : /\ n.prob_deform = 10
                                         /\ n.prob_missing = 0
                                         /\ n.axis = 0
                                         /\ Len(n.spec.voxel_size) = 3}
    /\ exchange = [e \in Exchanges |-> Idle]
    /\ flow_field \in {[NoCall EXCEPT !.slice_shape = sh] : sh \in SliceShapes}
    /\ torch_predict = NoPredict

\* self.__prepare_deform_slice(slice_shape)
PrepareDeformSlice ==
    /\ flow_field.pc = "idle"
    /\ \E rnd \in GeneratorDraws(flow_field.slice_shape, defect_augment.deformation_strength) :
          LET result == prepare_deform_slice(flow_field.slice_shape,
                                             defect_augment.deformation_strength, rnd)
          IN  flow_field' = [pc |-> IF result.err = "none" THEN "returned" ELSE "raised",
                             slice_shape |-> flow_field.slice_shape,
                             rnd |-> rnd,
                             result |-> result]
    /\ UNCHANGED <<defect_augment, exchange, torch_predict>>

NextG == PrepareDeformSlice

SpecG == InitG /\ [][NextG]_vars

\* ------------------------------------------------------------------ Predict

\* the array keys a Predict node can be configured to generate
OutputKeys == {"PRED", "EMB"}

\* a key of the outputs dict that is a string: the name of a layer of the model
LayerName(name) == [kind |-> "str", name |-> name, index |-> 0]

\* a key of the outputs dict that is an int: an index into the outputs of the model
TupleIndex(index) == [kind |-> "int", name |-> "", index |-> index]

OutputNames == {LayerName("conv"), TupleIndex(0), TupleIndex(1)}

\* the outputs dicts nodes are constructed with, as the sequence of their items
\* <<key, array key>> in insertion order (the keys of a dict are distinct)
OutputDicts ==
    {d \in UNION {[1 .. n -> OutputNames \X OutputKeys] : n \in 0 .. MaxOutputs} :
        \A i, j \in DOMAIN d : i # j => d[i][1] # d[j][1]}

\* what model.forward returns: one tensor, or a tuple of tensors
ModuleOuts ==
    {[is_tuple |-> FALSE, tensors |-> <<"out0">>],
     [is_tuple |-> TRUE, tensors |-> <<"out0", "out1">>]}

\* an ArraySpec, of which the ROI matters here (<<>>: None)
ArraySpec(roi) == [roi |-> roi, voxel_size |-> <<1>>]

\* Array(data, spec)
Array(data, spec) == [data |-> data, spec |-> spec]

\* self.spec: setup provides every array key of the outputs, with no ROI
ProvidedSpec(outputs) ==
    [k \in {outputs[i][2] : i \in DOMAIN outputs} |-> ArraySpec(<<>>)]

\* the requests sent to a Predict node: any of the output keys, each with a ROI
PredictRequests ==
    LET rois == {Roi(<<0>>, <<4>>), Roi(<<2>>, <<2>>)}
    IN  UNION {[keys -> {ArraySpec(r) : r \in rois}] : keys \in SUBSET OutputKeys}

\* the entries the forward hooks of register_hooks store while the model runs
Hooked(outputs) ==
    [name \in {outputs[i][1].name : i \in {j \in DOMAIN outputs : outputs[j][1].kind = "str"}}
        |-> "layer"]

\* the loop of get_outputs over self.outputs.items(), lines 149-154
RECURSIVE GetOutputsLoop(_, _, _, _, _)
GetOutputsLoop(items, outputs, intermediate_layers, module_outs, request) ==
    IF items = <<>>
    THEN [outputs |-> outputs, err |-> "none"]
    ELSE LET key == Head(items)[1]
             value == Head(items)[2]
             with(tensor) == [k \in DOMAIN outputs \cup {value} |->
                                IF k = value THEN tensor ELSE outputs[k]]
         IN  IF value \notin DOMAIN request
             THEN GetOutputsLoop(Tail(items), outputs, intermediate_layers, module_outs,
                                 request)
             ELSE IF key.kind = "str"
             THEN IF key.name \notin DOMAIN intermediate_layers
                  THEN [outputs |-> outputs, err |-> "KeyError"]
                  ELSE GetOutputsLoop(Tail(items), with(intermediate_layers[key.name]),
                                      intermediate_layers, module_outs, request)
             ELSE IF key.index + 1 > Len(module_outs)
                  THEN [outputs |-> outputs, err |-> "IndexError"]
                  ELSE GetOutputsLoop(Tail(items), with(module_outs[key.index + 1]),
                                      intermediate_layers, module_outs, request)

\* Predict.get_outputs(module_out, request)
get_outputs(node, module_out, request) ==
    LET module_outs == IF module_out.is_tuple THEN module_out.tensors
                       ELSE <<module_out.tensors[1]>>
    IN  GetOutputsLoop(node.outputs, <<>>, node.intermediate_layers, module_outs, request)

\* update_batch that sets the ROI on the node's own spec and hands that to the array
update_batch_without_copy(node, arrays, request, requested_outputs) ==
    LET spec == [k \in DOMAIN node.spec |->
                    IF k \in DOMAIN requested_outputs
                    THEN [node.spec[k] EXCEPT !.roi = request[k].roi]
                    ELSE node.spec[k]]
    IN  [node |-> [node EXCEPT !.spec = spec],
         arrays |-> [k \in DOMAIN arrays \cup DOMAIN requested_outputs |->
                       IF k \in DOMAIN requested_outputs
                       THEN Array(requested_outputs[k], spec[k])
                       ELSE arrays[k]]]

\* Predict.update_batch(batch, request, requested_outputs): each array gets a copy of
\* the node's spec for its key, with the ROI of the request
update_batch(node, arrays, request, requested_outputs) ==
    [node |-> node,
     arrays |-> [k \in DOMAIN arrays \cup DOMAIN requested_outputs |->
                   IF k \in DOMAIN requested_outputs
                   THEN LET spec == node.spec[k]
                        IN  Array(requested_outputs[k], [spec EXCEPT !.roi = request[k].roi])
                   ELSE arrays[k]]]

\* Predict.predict(batch, request), with what the model returns: the node and the
\* arrays of the batch afterwards, and the error raised
predict(node, arrays, request, module_out) ==
    LET ran == [node EXCEPT !.intermediate_layers = Hooked(node.outputs)]
        outputs == get_outputs(ran, module_out, request)
    IN  IF outputs.err # "none"
        THEN [node |-> ran, arrays |-> arrays, err |-> outputs.err]
        ELSE LET updated == update_batch(ran, arrays, request, outputs.outputs)
             IN  [node |-> updated.node, arrays |-> updated.arrays, err |-> "none"]

\* no DefectAugment node is part of the pipeline
NoDefectAugment == [pc |-> "absent"]

\* a Predict node after setup, a batch from upstream with the input array, a request
\* and the outputs the model will compute
InitP ==
    /\ defect_augment = NoDefectAugment
    /\ exchange = [e \in Exchanges |-> Idle]
    /\ flow_field = NoCall
    /\ torch_predict \in
          {[pc |-> "ready",
            node |-> [outputs |-> d, spec |-> ProvidedSpec(d), intermediate_layers |-> <<>>],
            module_out |-> m,
            request |-> r,
            arrays |-> [k \in {"RAW"} |-> Array("raw", ArraySpec(Roi(<<0>>, <<4>>)))],
            err |-> "none"] : d \in OutputDicts, m \in ModuleOuts, r \in PredictRequests}

\* GenericPredict.process calls self.predict(batch, request)
PredictBatch ==
    /\ torch_predict.pc = "ready"
    /\ LET res == predict(torch_predict.node, torch_predict.arrays, torch_predict.request,
                          torch_predict.module_out)
       IN  torch_predict' = [torch_predict EXCEPT
                               !.pc = IF res.err = "none" THEN "done" ELSE "failed",
                               !.node = res.node,
                               !.arrays = res.arrays,
                               !.err = res.err]
    /\ UNCHANGED <<defect_augment, exchange, flow_field>>

NextP == PredictBatch

SpecP == InitP /\ [][NextP]_vars

\* ------------------------------------------------------------------- claims

\* the shape in voxels a caller's request implies for the raw volume
RequestedShape(e) ==
    RoiDiv(exchange[e].request["RAW"], defect_augment.spec.voxel_size).shape

\* prepare of exchange e grew the raw ROI of the upstream request
Grown(e) == exchange[e].upstream_request["RAW"] # exchange[e].request["RAW"]

\* C1: when an exchange (prepare, then process) has completed, the ROI of the raw
\* volume returned to the caller is the ROI the caller requested, never the grown
\* ROI that prepare sent upstream.
C1_ReturnedRoiIsRequested ==
    \A e \in Exchanges :
        exchange[e].pc = "done" =>
            exchange[e].batch["RAW"].roi = exchange[e].request["RAW"]

\* an exchange completed whose upstream request had been grown
C1_Witness ==
    \E e \in Exchanges :
        /\ exchange[e].pc = "done"
        /\ Grown(e)
        /\ exchange[e].delivered["RAW"].roi = exchange[e].upstream_request["RAW"]

\* C2 (as claimed): after process, for every plan and every deformation_strength
\* >= 0, the shape of the returned raw data equals, on each axis, the extent of the
\* requested ROI divided by the voxel size.
C2_ReturnedShapeIsRequested ==
    \A e \in Exchanges :
        exchange[e].pc = "done" => exchange[e].batch["RAW"].shape = RequestedShape(e)

\* C3 (as claimed): with prob_deform = 1 and a 3D request whose in-slice extents are
\* both larger than 2 * deformation_strength voxels, prepare and process raise no
\* error and the returned raw data is shaped as requested.
C3_DeformRoundTrip ==
    \A e \in Exchanges :
        (/\ exchange[e].pc # "idle"
         /\ defect_augment.prob_deform = 10
         /\ defect_augment.prob_missing + defect_augment.prob_low_contrast
                + defect_augment.prob_artifact = 0
         /\ Len(RequestedShape(e)) = 3
         /\ \A i \in 1 .. 3 :
                i - 1 # defect_augment.axis =>
                    RequestedShape(e)[i] > 2 * defect_augment.deformation_strength)
        => (/\ exchange[e].pc # "failed"
            /\ exchange[e].pc = "done" =>
                    exchange[e].batch["RAW"].shape = RequestedShape(e))

\* C4: when prepare has returned, the raw ROI of the upstream request is the
\* requested ROI extended on both sides by voxel_size[d] * deformation_strength on
\* every axis d but the cut axis (by 0 on the cut axis) if the plan holds a deformed
\* slice, and it is the requested ROI itself if the plan holds none.
C4_GrowthIffDeformed ==
    \A e \in Exchanges :
        exchange[e].pc = "prepared" =>
            LET asked == exchange[e].request["RAW"]
                sent == exchange[e].upstream_request["RAW"]
                by(i) == IF i - 1 = defect_augment.axis THEN 0
                         ELSE defect_augment.spec.voxel_size[i]
                                * defect_augment.deformation_strength
            IN  IF "deformed_slice" \in Values(exchange[e].planned)
                THEN /\ sent.offset = [i \in DOMAIN asked.offset |-> asked.offset[i] - by(i)]
                     /\ sent.shape = [i \in DOMAIN asked.shape |-> asked.shape[i] + 2 * by(i)]
                ELSE sent = asked

\* prepare returned with a deformed slice in the plan and a larger upstream ROI
C4_Witness ==
    \E e \in Exchanges :
        /\ exchange[e].pc = "prepared"
        /\ "deformed_slice" \in Values(exchange[e].planned)
        /\ defect_augment.axis = 1
        /\ exchange[e].upstream_request["RAW"].shape[1]
                > exchange[e].request["RAW"].shape[1]

\* C5: prepare changes no entry of the request but the raw volume's: the upstream
\* request has the volumes of the caller's request, and every volume other than
\* the raw volume has the ROI the caller requested.
C5_OtherVolumesUntouched ==
    \A e \in Exchanges :
        exchange[e].pc # "idle" =>
            /\ DOMAIN exchange[e].upstream_request = DOMAIN exchange[e].request
            /\ \A v \in DOMAIN exchange[e].request \ {"RAW"} :
                    exchange[e].upstream_request[v] = exchange[e].request[v]

\* prepare grew the raw ROI of a request that also asks for the labels
C5_Witness ==
    \E e \in Exchanges :
        /\ exchange[e].pc = "prepared"
        /\ Grown(e)
        /\ "GT_LABELS" \in DOMAIN exchange[e].request

\* C6: when prepare has returned for a request of N slices, it made one draw per
\* slice, the keys of the plan lie in [0, N), and slice c with draw r is zero-out
\* iff r < t1, low-contrast iff t1 <= r < t2, artifact iff t2 <= r < t3, deformed
\* iff t3 <= r < t4 and absent from the plan iff r >= t4, for the cumulative sums
\* t1..t4 of the four probabilities.
C6_PlanFollowsThresholds ==
    \A e \in Exchanges :
        exchange[e].pc = "prepared" =>
            LET n == At(RequestedShape(e), defect_augment.axis)
                plan == exchange[e].planned
                t1 == defect_augment.prob_missing
                t2 == t1 + defect_augment.prob_low_contrast
                t3 == t2 + defect_augment.prob_artifact
                t4 == t3 + defect_augment.prob_deform
                is(c, kind) == c \in DOMAIN plan /\ plan[c] = kind
            IN  /\ DOMAIN plan \subseteq 0 .. (n - 1)
                /\ DOMAIN exchange[e].draws = 0 .. (n - 1)
                /\ \A c \in 0 .. (n - 1) :
                      LET r == exchange[e].draws[c]
                      IN  /\ is(c, "zero_out") <=> r < t1
                          /\ is(c, "lower_contrast") <=> (t1 <= r /\ r < t2)
                          /\ is(c, "artifact") <=> (t2 <= r /\ r < t3)
                          /\ is(c, "deformed_slice") <=> (t3 <= r /\ r < t4)
                          /\ c \notin DOMAIN plan <=> r >= t4

\* a plan with one slice augmented and one slice, drawn on the last threshold, left out
C6_Witness ==
    \E e \in Exchanges :
        /\ exchange[e].pc = "prepared"
        /\ \E c \in DOMAIN exchange[e].draws :
              /\ c \notin DOMAIN exchange[e].planned
              /\ exchange[e].draws[c] = defect_augment.prob_missing
                    + defect_augment.prob_low_contrast + defect_augment.prob_artifact
                    + defect_augment.prob_deform
        /\ DOMAIN exchange[e].planned # {}

\* the voxel of the delivered raw volume that a voxel of the returned one comes from
DeliveredIndex(e, idx) ==
    LET shift == IF "deformed_slice" \in Values(exchange[e].planned)
                 THEN defect_augment.deformation_strength ELSE 0
    IN  [i \in DOMAIN idx |-> IF i - 1 = defect_augment.axis THEN idx[i] ELSE idx[i] + shift]

\* C7 (as claimed): every slice prepare classified as low-contrast is compressed by
\* process: each value v of the slice is returned as mean + contrast_scale * (v -
\* mean), for the mean of the slice upstream delivered.
C7_LowContrastApplied ==
    \A e \in Exchanges :
        exchange[e].pc = "done" =>
            \A c \in DOMAIN exchange[e].planned :
                exchange[e].planned[c] = "lower_contrast" =>
                    LET before == exchange[e].delivered["RAW"]
                        after == exchange[e].batch["RAW"]
                        section == {idx \in Box(before.shape) :
                                        At(idx, defect_augment.axis) = c}
                        mean == RMul(RSum(before.data, section),
                                     <<1, Cardinality(section)>>)
                    IN  \A idx \in Box(after.shape) :
                            At(idx, defect_augment.axis) = c =>
                                LET v == before.data[DeliveredIndex(e, idx)]
                                IN  ValEq(after.data[idx],
                                          RAdd(mean, RMul(defect_augment.contrast_scale,
                                                          RSub(v, mean))))

\* C8 (as claimed): when exchanges through the same node interleave, process of
\* each request applies the plan prepare built for that request, and the volume it
\* returns has the ROI of that request.
C8_ExchangesAreIndependent ==
    \A e \in Exchanges :
        exchange[e].pc = "done" =>
            /\ exchange[e].applied = exchange[e].planned
            /\ exchange[e].batch["RAW"].roi = exchange[e].request["RAW"]

\* the errors of process that are data-contract violations
DataContractViolations ==
    {"AssertionError: dims", "AssertionError: raw dtype", "AssertionError: alpha dtype",
     "AssertionError: alpha min", "AssertionError: alpha max"}

\* C9 (as claimed): when process fails with a data-contract violation, no slice of
\* the raw volume has been modified: the data is as upstream delivered it.
C9_RejectedWholesale ==
    \A e \in Exchanges :
        (exchange[e].pc = "failed" /\ exchange[e].err \in DataContractViolations) =>
            exchange[e].batch["RAW"].data = exchange[e].delivered["RAW"].data

\* C10 (as claimed): with probabilities that sum to more than 1, no plan is built
\* and no batch is processed: neither prepare nor process ever returns.
C10_SumAboveOneRejected ==
    (defect_augment.prob_missing + defect_augment.prob_low_contrast
        + defect_augment.prob_artifact + defect_augment.prob_deform > 10) =>
        \A e \in Exchanges :
            /\ exchange[e].pc \notin {"prepared", "done"}
            /\ exchange[e].planned = <<>>

\* the node is configured to blend artifacts in but has no artifact source
NoSourceForArtifacts ==
    defect_augment.prob_artifact > 0 /\ ~defect_augment.artifact_source.given

\* C11 (as claimed): a node with prob_artifact > 0 and no artifact_source fails with
\* a configuration error before any slice of any batch is modified: no exchange
\* through it completes, and one that failed in process left the raw data as upstream
\* delivered it.
C11_MissingSourceRejected ==
    NoSourceForArtifacts =>
        \A e \in Exchanges :
            /\ exchange[e].pc # "done"
            /\ (exchange[e].pc = "failed" /\ exchange[e].batch # <<>>) =>
                  exchange[e].batch["RAW"].data = exchange[e].delivered["RAW"].data

\* C12: when an exchange has completed, every value of the returned raw volume that
\* lies in a slice the plan classifies as zero-out is 0; with prob_missing = 1 and the
\* other probabilities 0, every slice along the cut axis is zero-out and all-zero,
\* and the returned data has the shape of the data upstream delivered.
C12_ZeroOutSlicesAreZero ==
    \A e \in Exchanges :
        exchange[e].pc = "done" =>
            LET raw == exchange[e].batch["RAW"]
                plan == exchange[e].planned
                n == At(RequestedShape(e), defect_augment.axis)
            IN  /\ \A idx \in DOMAIN raw.data :
                      (/\ At(idx, defect_augment.axis) \in DOMAIN plan
                       /\ plan[At(idx, defect_augment.axis)] = "zero_out")
                          => ValEq(raw.data[idx], Zero)
                /\ (/\ defect_augment.prob_missing = 10
                    /\ defect_augment.prob_low_contrast = 0
                    /\ defect_augment.prob_artifact = 0
                    /\ defect_augment.prob_deform = 0) =>
                      /\ DOMAIN plan = 0 .. (n - 1)
                      /\ raw.shape = exchange[e].delivered["RAW"].shape
                      /\ raw.shape = RequestedShape(e)
                      /\ DOMAIN raw.data = Box(raw.shape)
                      /\ \A idx \in DOMAIN raw.data : ValEq(raw.data[idx], Zero)

\* an exchange with prob_missing = 1 completed on a request of several slices, none
\* of them all-zero as upstream delivered them
C12_Witness ==
    \E e \in Exchanges :
        /\ exchange[e].pc = "done"
        /\ defect_augment.prob_missing = 10
        /\ At(RequestedShape(e), defect_augment.axis) = MaxCut
        /\ \A idx \in DOMAIN exchange[e].delivered["RAW"].data :
              ~ValEq(exchange[e].delivered["RAW"].data[idx], Zero)
        /\ exchange[e].batch["RAW"].data # <<>>

\* the padded shape of the slice the flow-field generator was called with
Padded == PaddedShape(flow_field.slice_shape, defect_augment.deformation_strength)

\* the pixels of the tear line the generator rasterized between the endpoints it drew
TearLine ==
    LET e == Endpoints(Padded, flow_field.rnd) IN line(e[1], e[2], e[3], e[4])

\* the sampling coordinates a call returned are the identity meshgrid
IdentityFlow ==
    /\ Len(flow_field.result.flow_x) = Padded[1] * Padded[2]
    /\ Len(flow_field.result.flow_y) = Padded[1] * Padded[2]
    /\ \A i \in 0 .. (Padded[1] - 1), j \in 0 .. (Padded[2] - 1) :
          LET k == i * Padded[2] + j + 1
          IN  /\ flow_field.result.flow_x[k][1] = j /\ flow_field.result.flow_x[k][2] = 0
              /\ flow_field.result.flow_y[k][1] = i /\ flow_field.result.flow_y[k][2] = 0

C14_VolumeSpecImmutable ==
    \A e \in Exchanges :
        exchange[e].pc = "done" =>
            \A v \in DOMAIN exchange[e].batch :
                exchange[e].batch[v].roi = exchange[e].delivered[v].roi

\* the array keys a Predict node is configured to generate
Configured == {torch_predict.node.outputs[i][2] : i \in DOMAIN torch_predict.node.outputs}

\* C15: when predict has returned, the arrays it added to the batch are those of the
\* configured outputs whose array key is in the request and no others, the spec of
\* each added array has the ROI the request gives for its key, and the node's stored
\* spec for every key is the one setup provided.
C15_PredictAddsRequestedOutputs ==
    torch_predict.pc = "done" =>
        /\ DOMAIN torch_predict.arrays \ {"RAW"} =
              Configured \cap DOMAIN torch_predict.request
        /\ \A k \in DOMAIN torch_predict.arrays \ {"RAW"} :
              torch_predict.arrays[k].spec.roi = torch_predict.request[k].roi
        /\ torch_predict.arrays["RAW"] = Array("raw", ArraySpec(Roi(<<0>>, <<4>>)))
        /\ torch_predict.node.spec = ProvidedSpec(torch_predict.node.outputs)

\* predict returned on a node with two configured outputs, of which the request asks
\* for one
C15_Witness ==
    /\ torch_predict.pc = "done"
    /\ Cardinality(Configured) = 2
    /\ Cardinality(DOMAIN torch_predict.request) = 1
    /\ DOMAIN torch_predict.arrays \ {"RAW"} # {}

\* the data shape process is handed, cropped by deformation_strength on each side of
\* every axis but the cut axis
CroppedShape(e) ==
    [i \in DOMAIN exchange[e].delivered["RAW"].shape |->
        IF i - 1 = defect_augment.axis
        THEN exchange[e].delivered["RAW"].shape[i]
        ELSE exchange[e].delivered["RAW"].shape[i] - 2 * defect_augment.deformation_strength]

\* C16 (as claimed): in a single exchange, process crops the raw data by
\* deformation_strength on each side of every non-cut axis and resets the ROI to the
\* requested one if prepare of the exchange grew the upstream request; if prepare did
\* not grow it, process changes neither the shape of the data nor the ROI.
C16_CropIffGrown ==
    \A e \in Exchanges :
        exchange[e].pc = "done" =>
            IF Grown(e)
            THEN /\ exchange[e].batch["RAW"].shape = CroppedShape(e)
                 /\ exchange[e].batch["RAW"].roi = exchange[e].request["RAW"]
                 /\ exchange[e].batch["RAW"].shape # exchange[e].delivered["RAW"].shape
            ELSE /\ exchange[e].batch["RAW"].shape = exchange[e].delivered["RAW"].shape
                 /\ exchange[e].batch["RAW"].roi = exchange[e].delivered["RAW"].roi

\* the slices the plan of an exchange classifies as deformed
DeformedSlices(e) ==
    {c \in DOMAIN exchange[e].planned : exchange[e].planned[c] = "deformed_slice"}

\* C17: when prepare has returned, the slice indices with a stored transform are the
\* slice indices the plan classifies as deformed, and each stored transform (one
\* flow-x and one flow-y coordinate per pixel, and the line mask) has the size of the
\* padded slice (h + 2*deformation_strength) x (w + 2*deformation_strength), which is
\* the in-slice shape of the upstream volume process reads the slice from.
C17_TransformsMatchPlan ==
    \A e \in Exchanges :
        exchange[e].pc = "prepared" =>
            LET transforms == defect_augment.deform_slice_transformations
                s == defect_augment.deformation_strength
                slice_shape == DropAxis(RequestedShape(e), defect_augment.axis)
                read == DropAxis(RoiDiv(exchange[e].upstream_request["RAW"],
                                        defect_augment.spec.voxel_size).shape,
                                 defect_augment.axis)
            IN  /\ DOMAIN transforms = DeformedSlices(e)
                /\ \A c \in DOMAIN transforms :
                      /\ transforms[c].line_mask.shape =
                            <<slice_shape[1] + 2 * s, slice_shape[2] + 2 * s>>
                      /\ transforms[c].line_mask.shape = read
                      /\ Len(transforms[c].flow_x) = read[1] * read[2]
                      /\ Len(transforms[c].flow_y) = read[1] * read[2]

\* prepare returned with a slice deformed at a deformation_strength above 0 and a
\* slice left out of the plan
C17_Witness ==
    \E e \in Exchanges :
        /\ exchange[e].pc = "prepared"
        /\ defect_augment.deformation_strength > 0
        /\ DeformedSlices(e) # {}
        /\ DeformedSlices(e) # 0 .. (At(RequestedShape(e), defect_augment.axis) - 1)

\* the padded dimension the free coordinate of both endpoints lies on
FreeDim(fixed_x) == IF fixed_x THEN Padded[2] ELSE Padded[1]

\* C18 (as claimed): the free coordinate of each tear-line endpoint ranges over
\* exactly the integers [1, dim-2] of the padded dimension it lies on: a call draws no
\* value outside this interval, and it can draw every value inside it.
C18_EndpointRange ==
    flow_field.pc # "idle" =>
        /\ flow_field.result.err # "ValueError: randint" =>
              /\ flow_field.rnd.p0 \in 1 .. (FreeDim(flow_field.rnd.fixed_x) - 2)
              /\ flow_field.rnd.p1 \in 1 .. (FreeDim(flow_field.rnd.fixed_x) - 2)
        /\ \A fixed_x \in BOOLEAN :
              FreeDim(fixed_x) >= 3 =>
                  \A v \in 1 .. (FreeDim(fixed_x) - 2) : v \in EndpointRange(Padded, fixed_x)

\* C19: for a padded slice with both dimensions at least 4 and the endpoints a call
\* drew, the complement of the rasterized tear line has exactly two connected
\* components, the two-component assertion does not fire, and the corner pixels (0,0)
\* and (h-1,w-1) lie in different components.
C19_TwoComponents ==
    (flow_field.pc # "idle" /\ Padded[1] >= 4 /\ Padded[2] >= 4) =>
        LET components == label(Padded, TearLine)
            first == ComponentOf(components, <<0, 0>>)
            last == ComponentOf(components, <<Padded[1] - 1, Padded[2] - 1>>)
        IN  /\ Len(components) = 2
            /\ flow_field.result.err \notin {"AssertionError: n_components",
                                            "ValueError: randint"}
            /\ first # 0
            /\ last # 0
            /\ first # last

\* a call on a non-square padded slice that drew a slanted tear line
C19_Witness ==
    /\ flow_field.pc # "idle"
    /\ Padded[1] >= 4
    /\ Padded[2] > Padded[1]
    /\ flow_field.rnd.p0 # flow_field.rnd.p1
    /\ Cardinality(TearLine) > 4

\* the index in the data upstream delivered of the voxel process returns at idx
DeliveredAt(e, idx) ==
    [i \in DOMAIN idx |->
        idx[i] + (exchange[e].request["RAW"].offset[i]
                    - exchange[e].upstream_request["RAW"].offset[i])
                 \div defect_augment.spec.voxel_size[i]]

\* C20 (as claimed): when process has returned, every slice along the cut axis that
\* has no plan entry is returned with the values upstream delivered for the requested
\* region, and every volume of the batch other than the raw volume is returned with
\* the data and the ROI upstream delivered.
C20_UnplannedUntouched ==
    \A e \in Exchanges :
        exchange[e].pc = "done" =>
            /\ \A v \in DOMAIN exchange[e].batch \ {"RAW"} :
                  exchange[e].batch[v] = exchange[e].delivered[v]
            /\ \A idx \in Box(RequestedShape(e)) :
                  At(idx, defect_augment.axis) \notin DOMAIN exchange[e].applied =>
                      /\ idx \in DOMAIN exchange[e].batch["RAW"].data
                      /\ exchange[e].batch["RAW"].data[idx] =
                            exchange[e].delivered["RAW"].data[DeliveredAt(e, idx)]

====
